---- MODULE Spec2Model ----
(***************************************************************************)
(* The wallet transfer engine of idempotent-wallet: executeTransfer as it  *)
(* is written in src/modules/wallet/services/transfer.service.ts (PENDING  *)
(* log inserted first, then wallet locks) and in                           *)
(* src/modules/wallet/wallet.service.ts (Redis cache, wallet locks first,  *)
(* then the PENDING log), run by concurrent requests against PostgreSQL    *)
(* at SERIALIZABLE isolation.                                              *)
(*                                                                         *)
(* Money is counted in thousandths (mills): 10 mills = 0.01.  Stored       *)
(* balances and amounts are DECIMAL(20,2), so multiples of 10; a request   *)
(* amount is a JS number and may be any number of mills.                   *)
(***************************************************************************)
EXTENDS Integers, FiniteSets, Sequences, TLC

\* ---------------------------------------------------------------- bounds
MaxCalls == 2                   \* executeTransfer invocations in a run
MaxFaults == 1                  \* rejected awaits (database, Redis) in a run
Slots == {1, 2}                 \* requests in flight at the same time
Keys == {"k1", "k2"}            \* idempotency keys the callers use
EarlierKey == "k0"              \* the key of a transfer made before the run
AllKeys == Keys \cup {EarlierKey}
WalletIds == {1, 2, 3, 4}       \* wallet ids: rows 1 and 2 exist at the start,
                                \* 3 never has a row, 4 is the id (UUIDV4) of
                                \* the row createWallet inserts
NewWalletBalances == {50, -10}  \* initialBalance of createWallet: 0.05, -0.01
\* the transfers <<from, to, amount>> the callers request (amounts 0.02,
\* 0.005 and 0): both directions between the two wallets with a whole-cent
\* amount, a sub-cent amount, a missing destination, a missing source, the
\* same wallet twice, a zero amount, and a transfer to the wallet that
\* createWallet has added
Transfers ==
    {<<1, 2, 20>>, <<2, 1, 20>>, <<1, 2, 5>>,
     <<1, 3, 20>>, <<3, 2, 20>>, <<1, 1, 20>>, <<1, 2, 0>>, <<1, 4, 20>>}
\* the body of a POST /transfer that carries no Idempotency-Key header
KeylessTransfer == <<1, 2, 20>>
InitialBalance == <<30, 10, -1, -1>>  \* wallet 1 holds 0.03, wallet 2 holds
                                     \* 0.01, 3 and 4 have no row (Null)
Variants == {"transfer.service", "wallet.service"}

\* ------------------------------------------------------------- constants
MillsPerCent == 10

PENDING == "PENDING"
COMPLETED == "COMPLETED"
FAILED == "FAILED"
DEBIT == "DEBIT"
CREDIT == "CREDIT"

VARIABLES
    variant,      \* which service file the deployment runs
    wallets,      \* committed wallets.balance, per wallet id
    rowVersion,   \* committed UPDATEs applied to each wallet row
    logs,         \* committed rows of transaction_logs
    ledgers,      \* committed rows of ledgers
    cache,        \* Redis: idempotency:<key> -> serialized response
    lockHolder,   \* FOR UPDATE row lock on a wallet: slot or 0
    keyShare,     \* FOR KEY SHARE row locks taken by foreign-key checks
    calls,        \* invocations started so far
    faults,       \* awaits rejected so far
    pc,           \* per slot: the await the call is about to execute
    req,          \* per slot: the request of the call
    tx,           \* per slot: the open database transaction
    local,        \* per slot: local variables of executeTransfer; once the
                  \* call is done, what it returned or threw
    accounts,     \* committed accounts.balance, per account id
    interestLogs, \* committed rows of interest_logs
    timeZone      \* the process time zone, hours east of UTC

vars == <<variant, wallets, rowVersion, logs, ledgers, cache, lockHolder,
          keyShare, calls, faults, pc, req, tx, local, accounts, interestLogs,
          timeZone>>

dbVars == <<wallets, rowVersion, logs, ledgers>>
lockVars == <<lockHolder, keyShare>>
interestVars == <<accounts, interestLogs, timeZone>>

\* the interest tables while only transfers run: no account, no interest log
NoAccounts ==
    /\ accounts = << >>
    /\ interestLogs = {}
    /\ timeZone = 0

\* ------------------------------------------------------------ data shapes
NoLog == [id |-> 0, idempotencyKey |-> "", fromWalletId |-> 0, toWalletId |-> 0,
          amount |-> 0, status |-> "", errorMessage |-> "", createdAt |-> 0]

NoEntry == [success |-> FALSE, isIdempotent |-> FALSE, transactionId |-> 0,
            status |-> "", amount |-> 0, createdAt |-> 0]

NoReq == [idempotencyKey |-> "", fromWalletId |-> 0, toWalletId |-> 0, amount |-> 0]

NoTx == [active |-> FALSE, snapshot |-> <<0, 0, -1, -1>>, log |-> NoLog,
         balance |-> <<-1, -1, -1, -1>>, ledgers |-> {}]

\* firstWallet / secondWallet hold the balance read under the lock, Null
\* when findByPk found no row, Unread before the read.
Null == -1
Unread == -2

NoLocal == [firstWallet |-> Unread, secondWallet |-> Unread, transactionLog |-> NoLog,
            error |-> "none", via |-> "", mutated |-> FALSE,
            duplicate |-> FALSE, result |-> NoEntry]

\* --------------------------------------------------------- pure functions
\* DECIMAL(20,2) column: PostgreSQL rounds the numeric literal half away
\* from zero to two fractional digits.
toDecimal2(m) == ((m + 5) \div MillsPerCent) * MillsPerCent

\* (balance - 0.005).toFixed(2) and (balance + 0.005).toFixed(2) work on the
\* IEEE-754 double of the difference / sum, which is never exactly on the
\* tie: these are the stored balances for which that double lies above it.
SubTieRoundsUp == {10, 40, 50, 60, 70, 100, 130, 140, 170, 200, 230, 260, 270, 280}
AddTieRoundsUp == {0, 20, 50, 60, 70, 80, 90, 100, 110, 120, 130, 140, 160, 170,
                   190, 200, 220, 230, 250, 260, 270, 280}

\* parseFloat((balance - amount).toFixed(2))
fromBalanceAfter(balance, amount) ==
    LET d == balance - amount
        down == (d \div MillsPerCent) * MillsPerCent
    IN IF d % MillsPerCent = 5
       THEN (IF balance \in SubTieRoundsUp THEN down + MillsPerCent ELSE down)
       ELSE toDecimal2(d)

\* parseFloat((balance + amount).toFixed(2))
toBalanceAfter(balance, amount) ==
    LET s == balance + amount
        down == (s \div MillsPerCent) * MillsPerCent
    IN IF s % MillsPerCent = 5
       THEN (IF balance \in AddTieRoundsUp THEN down + MillsPerCent ELSE down)
       ELSE toDecimal2(s)

\* the funds check left out: every transfer is taken to be covered
insufficientFundsUnchecked(balance, amount) == FALSE

\* fromWallet.balance < amount
insufficientFunds(balance, amount) == balance < amount

\* the source wallet locked first, whatever its id
firstWalletIdIsSource(r) == r.fromWalletId

\* [firstWalletId, secondWalletId]: the smaller id is locked first
firstWalletId(r) == IF r.fromWalletId < r.toWalletId THEN r.fromWalletId ELSE r.toWalletId
secondWalletId(r) == IF r.fromWalletId < r.toWalletId THEN r.toWalletId ELSE r.fromWalletId

\* TransactionLog.findOne({ where: { idempotencyKey } }) outside a transaction
findOne(key) == {l \in logs : l.idempotencyKey = key}

\* the response of the call that executed the transfer: no isIdempotent field
\* (undefined, falsy: FALSE here)
executedResult(l) ==
    [success |-> TRUE, isIdempotent |-> FALSE, transactionId |-> l.id,
     status |-> l.status, amount |-> l.amount, createdAt |-> l.createdAt]

\* a replay that reports success whatever the status of the log
replayResultSucceeded(l) ==
    [success |-> TRUE, isIdempotent |-> TRUE, transactionId |-> l.id,
     status |-> l.status, amount |-> l.amount, createdAt |-> l.createdAt]

\* the replay response built from a stored log
replayResult(l) ==
    [success |-> (l.status = COMPLETED), isIdempotent |-> TRUE, transactionId |-> l.id,
     status |-> l.status, amount |-> l.amount, createdAt |-> l.createdAt]

\* instanceof InsufficientFundsError || WalletNotFoundError || InvalidTransferError
knownError(e) == e \in {"InsufficientFunds", "WalletNotFound", "InvalidTransfer"}

\* ------------------------------------------------------------------- Init
Init ==
    /\ variant \in Variants
    /\ wallets = InitialBalance
    /\ rowVersion = <<0, 0, -1, -1>>
    /\ logs = {}
    /\ ledgers = {}
    /\ cache = [k \in AllKeys |-> NoEntry]
    /\ lockHolder = <<0, 0, 0, 0>>
    /\ keyShare = <<{}, {}, {}, {}>>
    /\ calls = 0
    /\ faults = 0
    /\ pc = [p \in Slots |-> "idle"]
    /\ req = [p \in Slots |-> NoReq]
    /\ tx = [p \in Slots |-> NoTx]
    /\ local = [p \in Slots |-> NoLocal]
    /\ NoAccounts

\* ------------------------------------------------------ database helpers
\* the committed rows of the wallets table
Exists(w) == w \in WalletIds /\ wallets[w] # Null
ExistingWallets == {w \in WalletIds : Exists(w)}
\* the id of the row createWallet inserts (defaultValue UUIDV4): no caller
\* names it before createWallet has returned it
newWalletId == 4

\* COMMIT of the transaction of slot p: its writes become visible, its row
\* locks are released
committedLogs(p) == IF tx[p].log = NoLog THEN logs ELSE logs \cup {tx[p].log}
committedWallets(p) ==
    [w \in WalletIds |-> IF tx[p].balance[w] = -1 THEN wallets[w] ELSE tx[p].balance[w]]
committedVersions(p) ==
    [w \in WalletIds |-> IF tx[p].balance[w] = -1 THEN rowVersion[w] ELSE rowVersion[w] + 1]
\* the row locks of slot p outliving its transaction
locksKept(p) == lockHolder
releasedLocks(p) == [w \in WalletIds |-> IF lockHolder[w] = p THEN 0 ELSE lockHolder[w]]
releasedKeyShares(p) == [w \in WalletIds |-> keyShare[w] \ {p}]

\* the slots whose row locks or uncommitted unique-index entry the next
\* statement of slot p has to wait for
\* SELECT ... FOR UPDATE that waits for no other transaction
rowLockersIgnored(w, p) == {}
rowLockers(w, p) ==
    IF Exists(w) THEN ({lockHolder[w]} \cup keyShare[w]) \ {0, p} ELSE {}
forUpdateHolders(w, p) ==
    IF Exists(w) THEN {lockHolder[w]} \ {0, p} ELSE {}
uncommittedKeyHolders(k, p) ==
    {q \in Slots \ {p} : tx[q].active /\ tx[q].log # NoLog /\ tx[q].log.idempotencyKey = k}
\* the row was updated by a transaction that committed after the snapshot:
\* "could not serialize access due to concurrent update"
concurrentUpdate(w, p) == Exists(w) /\ rowVersion[w] # tx[p].snapshot[w]
\* a row lock request on a version that is already updated fails at once;
\* otherwise it waits for the holders of the conflicting locks
waitsFor(w, p, holders) == IF concurrentUpdate(w, p) THEN {} ELSE holders

blockedBy(p) ==
    CASE pc[p] = "create" -> uncommittedKeyHolders(req[p].idempotencyKey, p)
      [] pc[p] = "fk" -> waitsFor(req[p].fromWalletId, p, forUpdateHolders(req[p].fromWalletId, p))
      [] pc[p] = "fk2" -> waitsFor(req[p].toWalletId, p, forUpdateHolders(req[p].toWalletId, p))
      [] pc[p] = "lock1" -> waitsFor(firstWalletId(req[p]), p, rowLockers(firstWalletId(req[p]), p))
      [] pc[p] = "lock2" -> waitsFor(secondWalletId(req[p]), p, rowLockers(secondWalletId(req[p]), p))
      [] OTHER -> {}

\* fromWallet / toWallet resolved from the two locked rows
fromWallet(r, loc) ==
    IF r.fromWalletId = firstWalletId(r) THEN loc.firstWallet ELSE loc.secondWallet
toWallet(r, loc) ==
    IF r.toWalletId = firstWalletId(r) THEN loc.firstWallet ELSE loc.secondWallet

\* the caller-visible failure the validation of the locked wallets finds
failure(r, loc) ==
    IF fromWallet(r, loc) = Null THEN "WalletNotFound"
    ELSE IF toWallet(r, loc) = Null THEN "WalletNotFound"
    ELSE IF insufficientFunds(fromWallet(r, loc), r.amount) THEN "InsufficientFunds"
    ELSE "none"

\* the explanatory message left out
failureMessageEmpty(r, loc) == ""

failureMessage(r, loc) ==
    IF fromWallet(r, loc) = Null THEN "Source wallet not found"
    ELSE IF toWallet(r, loc) = Null THEN "Destination wallet not found"
    ELSE "Insufficient funds"

\* a new call takes the first slot never used, or, when every slot has been
\* used, the slot of a call that has ended (whose outcome is forgotten)
FreeSlot(p) ==
    \/ pc[p] = "idle" /\ \A q \in Slots : q < p => pc[q] # "idle"
    \/ pc[p] = "done" /\ \A q \in Slots : pc[q] # "idle"

\* the call of slot p returns or throws: the slot keeps the key and the
\* outcome (result or error) until the next call takes the slot
outcome(loc) ==
    [NoLocal EXCEPT !.error = loc.error, !.result = loc.result, !.via = loc.via,
                    !.mutated = loc.mutated, !.duplicate = loc.duplicate]

Finish(p, loc) ==
    /\ pc' = [pc EXCEPT ![p] = "done"]
    /\ req' = [req EXCEPT ![p] = [NoReq EXCEPT !.idempotencyKey = req[p].idempotencyKey]]
    /\ local' = [local EXCEPT ![p] = outcome(loc)]

Goto(p, step, loc) ==
    /\ pc' = [pc EXCEPT ![p] = step]
    /\ local' = [local EXCEPT ![p] = loc]
    /\ UNCHANGED req

\* ---------------------------------------------------------------- actions
\* the same-wallet check left out
invalidTransferAmountOnly(f, t, a) == a <= 0

\* amount <= 0, or fromWalletId === toWalletId: InvalidTransferError
invalidTransfer(f, t, a) == a <= 0 \/ f = t

\* executeTransfer is called: input validation, before any await.  The keys
\* k1 and k2 are fresh and interchangeable, so the first call names k1 or
\* the key of a log that already exists.
Call(p) ==
    /\ FreeSlot(p)
    /\ calls < MaxCalls
    /\ calls' = calls + 1
    /\ \E k \in Keys \cup {l.idempotencyKey : l \in logs}, tr \in Transfers :
         LET f == tr[1]
             t == tr[2]
             a == tr[3]
             r == [idempotencyKey |-> k, fromWalletId |-> f, toWalletId |-> t, amount |-> a]
             dup == \E q \in Slots \ {p} :
                        pc[q] \notin {"idle", "done"} /\ req[q] = r
             loc == [NoLocal EXCEPT !.duplicate = dup]
         IN /\ calls = 0 => k # "k2"
            /\ newWalletId \in {f, t} => Exists(newWalletId)
            /\ IF invalidTransfer(f, t, a)
               THEN /\ req' = [req EXCEPT ![p] = [NoReq EXCEPT !.idempotencyKey = k]]
                    /\ local' = [local EXCEPT ![p] = [loc EXCEPT !.error = "InvalidTransfer"]]
                    /\ pc' = [pc EXCEPT ![p] = "done"]
               ELSE /\ req' = [req EXCEPT ![p] = r]
                    /\ local' = [local EXCEPT ![p] = loc]
                    /\ pc' = [pc EXCEPT ![p] =
                           IF variant = "wallet.service" THEN "cacheGet" ELSE "findExisting"]
    /\ UNCHANGED <<variant, interestVars, dbVars, cache, lockVars, faults, tx>>

\* uuidv4() in the express controller: the key made up for the n-th request
GeneratedKeys == {"uuid-1", "uuid-2", "uuid-3", "uuid-4"}
uuidv4(n) == <<"uuid-1", "uuid-2", "uuid-3", "uuid-4">>[n]

\* POST /transfer without an Idempotency-Key header.  The express controller,
\* which runs executeTransfer of transfer.service.ts, substitutes uuidv4()
\* for the key; the Nest controller passes undefined to wallet.service.ts,
\* whose executeTransfer rejects it before any await.
CallWithoutKey(p) ==
    /\ FreeSlot(p)
    /\ calls < MaxCalls
    /\ calls' = calls + 1
    /\ IF variant = "transfer.service"
       THEN /\ req' = [req EXCEPT ![p] =
                         [idempotencyKey |-> uuidv4(calls + 1),
                          fromWalletId |-> KeylessTransfer[1],
                          toWalletId |-> KeylessTransfer[2],
                          amount |-> KeylessTransfer[3]]]
            /\ local' = [local EXCEPT ![p] = NoLocal]
            /\ pc' = [pc EXCEPT ![p] = "findExisting"]
       ELSE /\ req' = [req EXCEPT ![p] = NoReq]
            /\ local' = [local EXCEPT ![p] =
                           [NoLocal EXCEPT !.error = "MissingIdempotencyKey"]]
            /\ pc' = [pc EXCEPT ![p] = "done"]
    /\ UNCHANGED <<variant, interestVars, dbVars, cache, lockVars, faults, tx>>

\* createWallet is called: the initial balance is validated before the await
\* (one wallet is added in a run: the call starts while the id is free and no
\* other createWallet is under way)
CreateWallet(p) ==
    /\ FreeSlot(p)
    /\ calls < MaxCalls
    /\ calls' = calls + 1
    /\ ~ Exists(newWalletId)
    /\ \A q \in Slots : pc[q] # "insertWallet"
    /\ \E b \in NewWalletBalances :
         /\ req' = [req EXCEPT ![p] = [NoReq EXCEPT !.amount = b]]
         /\ IF b < 0
            THEN /\ local' = [local EXCEPT ![p] =
                                [NoLocal EXCEPT !.error = "InvalidTransfer", !.via = "createWallet"]]
                 /\ pc' = [pc EXCEPT ![p] = "done"]
            ELSE /\ local' = [local EXCEPT ![p] = [NoLocal EXCEPT !.via = "createWallet"]]
                 /\ pc' = [pc EXCEPT ![p] = "insertWallet"]
    /\ UNCHANGED <<variant, interestVars, dbVars, cache, lockVars, faults, tx>>

\* Wallet.create({ balance: initialBalance }): the row is committed at once
\* (no transaction), its balance stored as DECIMAL(20,2)
InsertWallet(p) ==
    /\ pc[p] = "insertWallet"
    /\ wallets' = [wallets EXCEPT ![newWalletId] = toDecimal2(req[p].amount)]
    /\ rowVersion' = [rowVersion EXCEPT ![newWalletId] = 0]
    /\ Finish(p, local[p])
    /\ UNCHANGED <<variant, interestVars, logs, ledgers, cache, lockVars, calls, faults, tx>>

\* redis.get(cacheKey): a hit is returned as it was stored
CacheGet(p) ==
    /\ pc[p] = "cacheGet"
    /\ IF cache[req[p].idempotencyKey] # NoEntry
       THEN Finish(p, [local[p] EXCEPT !.result = cache[req[p].idempotencyKey],
                                       !.via = "cache"])
       ELSE Goto(p, "findExisting", local[p])
    /\ UNCHANGED <<variant, interestVars, dbVars, cache, lockVars, calls, faults, tx>>

\* the cache entry expires (EX 86400) or is evicted
CacheExpire(k) ==
    /\ cache[k] # NoEntry
    /\ cache' = [cache EXCEPT ![k] = NoEntry]
    /\ UNCHANGED <<variant, interestVars, dbVars, lockVars, calls, faults, pc, req, tx, local>>

\* a fast path that replays only a log whose wallets and amount are those
\* of the request
FindExistingSamePayload(p) ==
    /\ pc[p] = "findExisting"
    /\ LET found == {l \in findOne(req[p].idempotencyKey) :
                        /\ l.fromWalletId = req[p].fromWalletId
                        /\ l.toWalletId = req[p].toWalletId
                        /\ l.amount = toDecimal2(req[p].amount)}
       IN IF found # {}
          THEN LET l == CHOOSE x \in found : TRUE
                   loc == [local[p] EXCEPT !.result = replayResult(l), !.via = "fastpath"]
               IN IF variant = "wallet.service"
                  THEN Goto(p, "cacheSet", loc)
                  ELSE Finish(p, loc)
          ELSE Goto(p, "begin", local[p])
    /\ UNCHANGED <<variant, interestVars, dbVars, cache, lockVars, calls, faults, tx>>

\* fast path: TransactionLog.findOne by key, outside any transaction
FindExisting(p) ==
    /\ pc[p] = "findExisting"
    /\ IF findOne(req[p].idempotencyKey) # {}
       THEN LET l == CHOOSE x \in findOne(req[p].idempotencyKey) : TRUE
                loc == [local[p] EXCEPT !.result = replayResult(l), !.via = "fastpath"]
            IN IF variant = "wallet.service"
               THEN Goto(p, "cacheSet", loc)
               ELSE Finish(p, loc)
       ELSE Goto(p, "begin", local[p])
    /\ UNCHANGED <<variant, interestVars, dbVars, cache, lockVars, calls, faults, tx>>

\* sequelize.transaction({ SERIALIZABLE }) and the issue of its first
\* statement, which fixes the snapshot
Begin(p) ==
    /\ pc[p] = "begin"
    /\ tx' = [tx EXCEPT ![p] = [NoTx EXCEPT !.active = TRUE, !.snapshot = rowVersion]]
    /\ Goto(p, IF variant = "wallet.service" THEN "lock1" ELSE "create", local[p])
    /\ UNCHANGED <<variant, interestVars, dbVars, cache, lockVars, calls, faults>>

\* the unique index left out: a second row of a committed key is accepted
uniqueViolationUnenforced(k) == FALSE

\* the unique index on idempotency_key: a committed row with the key is a
\* violation, an uncommitted one makes the INSERT wait
uniqueViolation(k) == findOne(k) # {}

\* UUIDV4 default of transaction_logs.id: an id no stored row, open
\* transaction or live transactionLog variable carries
usedIds ==
    {l.id : l \in logs} \cup {tx[q].log.id : q \in Slots}
        \cup {local[q].transactionLog.id : q \in Slots}
freshId == CHOOSE i \in 1..(MaxCalls + 1) : i \notin usedIds /\ \A j \in 1..(i - 1) : j \in usedIds

\* the INSERT of the PENDING log left out
CreateLogSkipped(p) ==
    /\ pc[p] = "create"
    /\ Goto(p, "fk", local[p])
    /\ UNCHANGED <<variant, interestVars, dbVars, cache, lockVars, calls, faults, tx>>

\* the INSERT of a key that an open transaction has inserted fails at once
\* instead of waiting for that transaction to end
CreateLogWithoutWaiting(p) ==
    /\ pc[p] = "create"
    /\ IF uniqueViolation(req[p].idempotencyKey)
          \/ uncommittedKeyHolders(req[p].idempotencyKey, p) # {}
       THEN /\ Goto(p, "rollback", local[p])
            /\ UNCHANGED <<tx, lockVars>>
       ELSE /\ tx' = [tx EXCEPT ![p].log =
                      [id |-> freshId, idempotencyKey |-> req[p].idempotencyKey,
                       fromWalletId |-> req[p].fromWalletId,
                       toWalletId |-> req[p].toWalletId,
                       amount |-> toDecimal2(req[p].amount), status |-> PENDING,
                       errorMessage |-> "", createdAt |-> freshId]]
            /\ UNCHANGED lockVars
            /\ Goto(p, "fk", local[p])
    /\ UNCHANGED <<variant, interestVars, dbVars, cache, calls, faults>>

\* TransactionLog.create({ ..., status: PENDING }, { transaction }): the row
\* and its unique-index entry.  A unique violation is caught by the inner
\* catch, which goes on to roll the transaction back.
CreateLog(p) ==
    /\ pc[p] = "create"
    /\ uncommittedKeyHolders(req[p].idempotencyKey, p) = {}
    /\ IF uniqueViolation(req[p].idempotencyKey)
       THEN /\ Goto(p, "rollback", local[p])
            /\ UNCHANGED <<tx, lockVars>>
       ELSE /\ tx' = [tx EXCEPT ![p].log =
                      [id |-> freshId, idempotencyKey |-> req[p].idempotencyKey,
                       fromWalletId |-> req[p].fromWalletId,
                       toWalletId |-> req[p].toWalletId,
                       amount |-> toDecimal2(req[p].amount), status |-> PENDING,
                       errorMessage |-> "", createdAt |-> freshId]]
            /\ UNCHANGED lockVars
            /\ Goto(p, "fk", local[p])
    /\ UNCHANGED <<variant, interestVars, dbVars, cache, calls, faults>>

\* catch (UniqueConstraintError): await transaction.rollback(), which ends
\* the transaction and releases its row locks
Rollback(p) ==
    /\ pc[p] = "rollback"
    /\ tx' = [tx EXCEPT ![p] = NoTx]
    /\ lockHolder' = releasedLocks(p)
    /\ keyShare' = releasedKeyShares(p)
    /\ Goto(p, "refetch", local[p])
    /\ UNCHANGED <<variant, interestVars, dbVars, cache, calls, faults>>

\* the foreign keys of the inserted row, checked one after the other:
\* from_wallet_id, then to_wallet_id.  A missing wallet fails the INSERT.  An
\* existing one is locked FOR KEY SHARE in the version the snapshot shows:
\* when that version was updated by a transaction that committed after the
\* snapshot (every UPDATE of a wallet is made under FOR UPDATE, which
\* conflicts with the key share), the INSERT fails with "could not serialize
\* access due to concurrent update"; else the lock is granted after a wait
\* for the transaction that holds the row FOR UPDATE.  After the second
\* check create() returns and transactionLog is assigned.
ForeignKeyCheck(p) ==
    /\ pc[p] \in {"fk", "fk2"}
    /\ LET w == IF pc[p] = "fk" THEN req[p].fromWalletId ELSE req[p].toWalletId
       IN IF ~ Exists(w)
          THEN /\ Goto(p, "catch", [local[p] EXCEPT !.error = "ForeignKeyConstraintError"])
               /\ UNCHANGED lockVars
          ELSE IF concurrentUpdate(w, p)
          THEN /\ Goto(p, "catch", [local[p] EXCEPT !.error = "SerializationFailure"])
               /\ UNCHANGED lockVars
          ELSE /\ forUpdateHolders(w, p) = {}
               /\ keyShare' = [keyShare EXCEPT ![w] = @ \cup {p}]
               /\ UNCHANGED lockHolder
               /\ IF pc[p] = "fk"
                  THEN Goto(p, "fk2", local[p])
                  ELSE LET loc == [local[p] EXCEPT !.transactionLog = tx[p].log]
                       IN IF variant = "transfer.service"
                          THEN Goto(p, "lock1", loc)
                          ELSE Goto(p, IF failure(req[p], loc) = "none" THEN "debit"
                                       ELSE "markFailed", loc)
    /\ UNCHANGED <<variant, interestVars, dbVars, cache, calls, faults, tx>>

\* after the unique violation: TransactionLog.findOne by key, no transaction
Refetch(p) ==
    /\ pc[p] = "refetch"
    /\ IF findOne(req[p].idempotencyKey) # {}
       THEN LET l == CHOOSE x \in findOne(req[p].idempotencyKey) : TRUE
                loc == [local[p] EXCEPT !.result = replayResult(l), !.via = "unique"]
            IN IF variant = "wallet.service"
               THEN Goto(p, "cacheSet", loc)
               ELSE Finish(p, loc)
       ELSE Goto(p, "catch",
                 [local[p] EXCEPT !.error = "Failed to retrieve existing transaction log"])
    /\ UNCHANGED <<variant, interestVars, dbVars, cache, lockVars, calls, faults, tx>>

\* Wallet.findByPk(firstWalletId, { transaction, lock: UPDATE })
LockFirst(p) ==
    /\ pc[p] = "lock1"
    /\ LET w == firstWalletId(req[p])
       IN IF ~ Exists(w)
          THEN /\ Goto(p, "lock2", [local[p] EXCEPT !.firstWallet = Null])
               /\ UNCHANGED lockVars
          ELSE IF concurrentUpdate(w, p)
          THEN /\ Goto(p, "catch", [local[p] EXCEPT !.error = "SerializationFailure"])
               /\ UNCHANGED lockVars
          ELSE /\ rowLockers(w, p) = {}
               /\ lockHolder' = [lockHolder EXCEPT ![w] = p]
               /\ UNCHANGED keyShare
               /\ Goto(p, "lock2", [local[p] EXCEPT !.firstWallet = wallets[w]])
    /\ UNCHANGED <<variant, interestVars, dbVars, cache, calls, faults, tx>>

\* Wallet.findByPk(secondWalletId, { transaction, lock: UPDATE }), then the
\* synchronous resolution of fromWallet / toWallet and their validation
LockSecond(p) ==
    /\ pc[p] = "lock2"
    /\ LET w == secondWalletId(req[p])
           after(loc) ==
               IF variant = "transfer.service"
               THEN Goto(p, IF failure(req[p], loc) = "none" THEN "debit"
                            ELSE "markFailed", loc)
               ELSE IF failure(req[p], loc) = "WalletNotFound"
               THEN Goto(p, "catch", [loc EXCEPT !.error = "WalletNotFound"])
               ELSE Goto(p, "create", loc)
       IN IF ~ Exists(w)
          THEN /\ after([local[p] EXCEPT !.secondWallet = Null])
               /\ UNCHANGED lockVars
          ELSE IF concurrentUpdate(w, p)
          THEN /\ Goto(p, "catch", [local[p] EXCEPT !.error = "SerializationFailure"])
               /\ UNCHANGED lockVars
          ELSE /\ rowLockers(w, p) = {}
               /\ lockHolder' = [lockHolder EXCEPT ![w] = p]
               /\ UNCHANGED keyShare
               /\ after([local[p] EXCEPT !.secondWallet = wallets[w]])
    /\ UNCHANGED <<variant, interestVars, dbVars, cache, calls, faults, tx>>

\* transactionLog.update({ status: FAILED, errorMessage }, { transaction })
MarkFailed(p) ==
    /\ pc[p] = "markFailed"
    /\ tx' = [tx EXCEPT ![p].log = [@ EXCEPT !.status = FAILED,
                                    !.errorMessage = failureMessage(req[p], local[p])]]
    /\ Goto(p, "commitFailed", local[p])
    /\ UNCHANGED <<variant, interestVars, dbVars, cache, lockVars, calls, faults>>

\* transaction.commit() of the FAILED log, then the throw of the
\* caller-visible error
CommitFailed(p) ==
    /\ pc[p] = "commitFailed"
    /\ logs' = committedLogs(p)
    /\ wallets' = committedWallets(p)
    /\ rowVersion' = committedVersions(p)
    /\ ledgers' = ledgers \cup tx[p].ledgers
    /\ lockHolder' = releasedLocks(p)
    /\ keyShare' = releasedKeyShares(p)
    /\ tx' = [tx EXCEPT ![p] = NoTx]
    /\ Goto(p, "catch", [local[p] EXCEPT !.error = failure(req[p], local[p])])
    /\ UNCHANGED <<variant, interestVars, cache, calls, faults>>

\* Step 4: fromWallet.update({ balance: fromBalanceAfter }, { transaction }),
\* then toWallet.update({ balance: toBalanceAfter }, { transaction }): two
\* awaits, one statement each
UpdateBalances(p) ==
    /\ pc[p] \in {"debit", "credit"}
    /\ tx' = [tx EXCEPT ![p].balance =
                 IF pc[p] = "debit"
                 THEN [@ EXCEPT ![req[p].fromWalletId] =
                          fromBalanceAfter(fromWallet(req[p], local[p]), req[p].amount)]
                 ELSE [@ EXCEPT ![req[p].toWalletId] =
                          toBalanceAfter(toWallet(req[p], local[p]), req[p].amount)]]
    /\ Goto(p, IF pc[p] = "debit" THEN "credit" ELSE "ledger", local[p])
    /\ UNCHANGED <<variant, interestVars, dbVars, cache, lockVars, calls, faults>>

\* Step 5: Ledger.create of the DEBIT row on the source, then Ledger.create
\* of the CREDIT row on the destination, { transaction }: two awaits
debitEntry(r, loc) ==
    [walletId |-> r.fromWalletId, transactionLogId |-> loc.transactionLog.id,
     entryType |-> DEBIT, amount |-> toDecimal2(r.amount),
     balanceBefore |-> fromWallet(r, loc),
     balanceAfter |-> fromBalanceAfter(fromWallet(r, loc), r.amount)]

creditEntry(r, loc) ==
    [walletId |-> r.toWalletId, transactionLogId |-> loc.transactionLog.id,
     entryType |-> CREDIT, amount |-> toDecimal2(r.amount),
     balanceBefore |-> toWallet(r, loc),
     balanceAfter |-> toBalanceAfter(toWallet(r, loc), r.amount)]

CreateLedgerEntries(p) ==
    /\ pc[p] \in {"ledger", "ledger2"}
    /\ tx' = [tx EXCEPT ![p].ledgers =
                 @ \cup {IF pc[p] = "ledger" THEN debitEntry(req[p], local[p])
                                             ELSE creditEntry(req[p], local[p])}]
    /\ Goto(p, IF pc[p] = "ledger" THEN "ledger2" ELSE "markCompleted", local[p])
    /\ UNCHANGED <<variant, interestVars, dbVars, cache, lockVars, calls, faults>>

\* the update of the log to COMPLETED left out
MarkCompletedSkipped(p) ==
    /\ pc[p] = "markCompleted"
    /\ Goto(p, "commit", local[p])
    /\ UNCHANGED <<variant, interestVars, dbVars, cache, lockVars, calls, faults, tx>>

\* transactionLog.update({ status: COMPLETED }, { transaction })
MarkCompleted(p) ==
    /\ pc[p] = "markCompleted"
    /\ tx' = [tx EXCEPT ![p].log = [@ EXCEPT !.status = COMPLETED]]
    /\ Goto(p, "commit", local[p])
    /\ UNCHANGED <<variant, interestVars, dbVars, cache, lockVars, calls, faults>>

\* transaction.commit() of the transfer
Commit(p) ==
    /\ pc[p] = "commit"
    /\ logs' = committedLogs(p)
    /\ wallets' = committedWallets(p)
    /\ rowVersion' = committedVersions(p)
    /\ ledgers' = ledgers \cup tx[p].ledgers
    /\ lockHolder' = releasedLocks(p)
    /\ keyShare' = releasedKeyShares(p)
    /\ tx' = [tx EXCEPT ![p] = NoTx]
    /\ Goto(p, "reload", [local[p] EXCEPT !.mutated = TRUE])
    /\ UNCHANGED <<variant, interestVars, cache, calls, faults>>

\* transactionLog.reload(), then the result of the executed transfer
Reload(p) ==
    /\ pc[p] = "reload"
    /\ LET l == CHOOSE x \in logs : x.id = local[p].transactionLog.id
           loc == [local[p] EXCEPT !.transactionLog = l, !.result = executedResult(l),
                                   !.via = "execute"]
       IN IF variant = "wallet.service"
          THEN Goto(p, "cacheSet", loc)
          ELSE Finish(p, loc)
    /\ UNCHANGED <<variant, interestVars, dbVars, cache, lockVars, calls, faults, tx>>

\* redis.set(cacheKey, JSON.stringify(result), 'EX', 86400), then return
CacheSet(p) ==
    /\ pc[p] = "cacheSet"
    /\ cache' = [cache EXCEPT ![req[p].idempotencyKey] = local[p].result]
    /\ Finish(p, local[p])
    /\ UNCHANGED <<variant, interestVars, dbVars, lockVars, calls, faults, tx>>

\* the awaits of the try block up to the commit, any of which the database
\* may reject (connection loss, statement timeout, serialization failure at
\* commit), among them the rollback and the lookup after a unique violation
InTransaction ==
    {"create", "fk", "fk2", "rollback", "refetch", "lock1", "lock2", "markFailed",
     "commitFailed", "debit", "credit", "ledger", "ledger2", "markCompleted", "commit"}

\* the awaits before the try block: redis.get, the fast-path findOne and
\* sequelize.transaction()
BeforeTry == {"cacheGet", "findExisting", "begin"}

\* an await is rejected: inside the try block the error goes to the catch
\* block, before it the error reaches the caller as it is
StatementFails(p) ==
    /\ faults < MaxFaults
    /\ faults' = faults + 1
    /\ pc[p] \in InTransaction \cup BeforeTry \cup {"insertWallet"}
    /\ IF pc[p] \in InTransaction
       THEN Goto(p, "catch", [local[p] EXCEPT !.error = "DatabaseError"])
       ELSE IF pc[p] = "insertWallet"
       THEN Finish(p, [local[p] EXCEPT !.error = "SequelizeDatabaseError"])
       ELSE Finish(p, [local[p] EXCEPT !.error = IF pc[p] = "cacheGet" THEN "RedisError"
                                                 ELSE "DatabaseError"])
    /\ UNCHANGED <<variant, interestVars, dbVars, cache, lockVars, calls, tx>>

\* transactionLog.reload() rejects after the commit
ReloadFails(p) ==
    /\ faults < MaxFaults
    /\ faults' = faults + 1
    /\ pc[p] = "reload"
    /\ Goto(p, "catch", [local[p] EXCEPT !.error = "DatabaseError"])
    /\ UNCHANGED <<variant, interestVars, dbVars, cache, lockVars, calls, tx>>

\* redis.set rejects: inside the try block after an executed transfer and
\* on the replay after a unique violation (the catch block runs, with no
\* transactionLog in the second case), outside it on the fast path
CacheSetFails(p) ==
    /\ faults < MaxFaults
    /\ faults' = faults + 1
    /\ pc[p] = "cacheSet"
    /\ IF local[p].via \in {"execute", "unique"}
       THEN Goto(p, "catch", [local[p] EXCEPT !.error = "RedisError", !.result = NoEntry])
       ELSE Finish(p, [local[p] EXCEPT !.error = "RedisError", !.result = NoEntry])
    /\ UNCHANGED <<variant, interestVars, dbVars, cache, lockVars, calls, tx>>

\* PostgreSQL's deadlock detector fails the statement of a transaction that
\* waits for a transaction waiting for it
DeadlockDetected(p) ==
    /\ \E q \in blockedBy(p) : p \in blockedBy(q)
    /\ Goto(p, "catch", [local[p] EXCEPT !.error = "DeadlockDetected"])
    /\ UNCHANGED <<variant, interestVars, dbVars, cache, lockVars, calls, faults, tx>>

\* catch (error): transaction.rollback() unless already finished, known
\* errors are re-thrown, others go on to mark the log when there is one
Catch(p) ==
    /\ pc[p] = "catch"
    /\ tx' = [tx EXCEPT ![p] = NoTx]
    /\ lockHolder' = releasedLocks(p)
    /\ keyShare' = releasedKeyShares(p)
    /\ IF knownError(local[p].error) \/ local[p].transactionLog = NoLog
       THEN Finish(p, [local[p] EXCEPT !.result = NoEntry])
       ELSE Goto(p, "catchUpdate", local[p])
    /\ UNCHANGED <<variant, interestVars, dbVars, cache, calls, faults>>

\* the log marked FAILED with its error_message left as it was
markedFailedWithoutMessage(l, id) ==
    IF l.id = id THEN [l EXCEPT !.status = FAILED] ELSE l

\* transactionLog.update({ status: FAILED, errorMessage }) with no
\* transaction: UPDATE transaction_logs ... WHERE id = <id>, auto-committed
markedFailed(l, id) ==
    IF l.id = id THEN [l EXCEPT !.status = FAILED, !.errorMessage = "error"] ELSE l

CatchUpdate(p) ==
    /\ pc[p] = "catchUpdate"
    /\ logs' = {markedFailed(l, local[p].transactionLog.id) : l \in logs}
    /\ Finish(p, [local[p] EXCEPT !.result = NoEntry])
    /\ UNCHANGED <<variant, interestVars, wallets, rowVersion, ledgers, cache, lockVars, calls, faults, tx>>

\* that update rejects and the rejection is swallowed
CatchUpdateFails(p) ==
    /\ faults < MaxFaults
    /\ faults' = faults + 1
    /\ pc[p] = "catchUpdate"
    /\ Finish(p, [local[p] EXCEPT !.result = NoEntry])
    /\ UNCHANGED <<variant, interestVars, dbVars, cache, lockVars, calls, tx>>

Next ==
    \/ \E p \in Slots : Call(p)
    \/ \E p \in Slots : CacheGet(p)
    \/ \E k \in AllKeys : CacheExpire(k)
    \/ \E p \in Slots : FindExisting(p)
    \/ \E p \in Slots : Begin(p)
    \/ \E p \in Slots : CreateLog(p)
    \/ \E p \in Slots : Rollback(p)
    \/ \E p \in Slots : CreateWallet(p)
    \/ \E p \in Slots : InsertWallet(p)
    \/ \E p \in Slots : ForeignKeyCheck(p)
    \/ \E p \in Slots : Refetch(p)
    \/ \E p \in Slots : LockFirst(p)
    \/ \E p \in Slots : LockSecond(p)
    \/ \E p \in Slots : MarkFailed(p)
    \/ \E p \in Slots : CommitFailed(p)
    \/ \E p \in Slots : UpdateBalances(p)
    \/ \E p \in Slots : CreateLedgerEntries(p)
    \/ \E p \in Slots : MarkCompleted(p)
    \/ \E p \in Slots : Commit(p)
    \/ \E p \in Slots : Reload(p)
    \/ \E p \in Slots : CacheSet(p)
    \/ \E p \in Slots : StatementFails(p)
    \/ \E p \in Slots : ReloadFails(p)
    \/ \E p \in Slots : CacheSetFails(p)
    \/ \E p \in Slots : DeadlockDetected(p)
    \/ \E p \in Slots : Catch(p)
    \/ \E p \in Slots : CatchUpdate(p)
    \/ \E p \in Slots : CatchUpdateFails(p)

Spec == Init /\ [][Next]_vars

\* The service behind its HTTP controller: besides the calls that carry a key,
\* requests arrive whose Idempotency-Key header is missing.
NextThroughController ==
    \/ Next
    \/ \E p \in Slots : CallWithoutKey(p)

SpecThroughController == Init /\ [][NextThroughController]_vars

\* The state after executeTransfer({ k0, 2 -> 1, 0.02 }) has run alone from
\* Init: wallet 2 held 0.01, so the call committed a FAILED log and raised
\* InsufficientFunds (nothing is cached on that path).  MaxCalls further
\* calls follow.
failedBefore ==
    [id |-> 1, idempotencyKey |-> EarlierKey, fromWalletId |-> 2, toWalletId |-> 1,
     amount |-> 20, status |-> FAILED, errorMessage |-> "Insufficient funds",
     createdAt |-> 1]

InitAfterFailure ==
    /\ variant \in Variants
    /\ wallets = InitialBalance
    /\ rowVersion = <<0, 0, -1, -1>>
    /\ logs = {failedBefore}
    /\ ledgers = {}
    /\ cache = [k \in AllKeys |-> NoEntry]
    /\ lockHolder = <<0, 0, 0, 0>>
    /\ keyShare = <<{}, {}, {}, {}>>
    /\ calls = 0
    /\ faults = 0
    /\ pc = [p \in Slots |-> "idle"]
    /\ req = [p \in Slots |-> NoReq]
    /\ tx = [p \in Slots |-> NoTx]
    /\ local = [p \in Slots |-> NoLocal]
    /\ NoAccounts

SpecAfterFailure == InitAfterFailure /\ [][Next]_vars

\* Both wallets hold 0.03, enough for a transfer of 0.02 in either direction
\* whichever of two such transfers goes first.
FundedBalance == <<30, 30, -1, -1>>

InitBothFunded ==
    /\ variant \in Variants
    /\ wallets = FundedBalance
    /\ rowVersion = <<0, 0, -1, -1>>
    /\ logs = {}
    /\ ledgers = {}
    /\ cache = [k \in AllKeys |-> NoEntry]
    /\ lockHolder = <<0, 0, 0, 0>>
    /\ keyShare = <<{}, {}, {}, {}>>
    /\ calls = 0
    /\ faults = 0
    /\ pc = [p \in Slots |-> "idle"]
    /\ req = [p \in Slots |-> NoReq]
    /\ tx = [p \in Slots |-> NoTx]
    /\ local = [p \in Slots |-> NoLocal]
    /\ NoAccounts

SpecBothFunded == InitBothFunded /\ [][Next]_vars

\* ------------------------------------------------------------- type check
TypeOK ==
    /\ variant \in Variants
    /\ \A w \in WalletIds : wallets[w] \in Int
    /\ calls \in 0..MaxCalls
    /\ faults \in 0..MaxFaults
    /\ \A p \in Slots : tx[p].active \in BOOLEAN

\* ------------------------------------------------------- stated properties
RECURSIVE SumAmounts(_)
SumAmounts(S) ==
    IF S = {} THEN 0
    ELSE LET e == CHOOSE x \in S : TRUE IN e.amount + SumAmounts(S \ {e})

\* the Ledger rows of the transfers made under idempotency key k
entriesOfKey(k, type) ==
    {e \in ledgers : e.entryType = type
                     /\ \E l \in findOne(k) : l.id = e.transactionLogId}
entriesOfLog(l) == {e \in ledgers : e.transactionLogId = l.id}
entriesOfWallet(w, type) == {e \in ledgers : e.walletId = w /\ e.entryType = type}

\* the balance a wallet started with: the one it holds at the start, or the
\* one its createWallet stored
initialBalanceOf(w) ==
    IF InitialBalance[w] # Null THEN InitialBalance[w]
    ELSE toDecimal2(CHOOSE b \in NewWalletBalances : b >= 0)
held(w) == IF Exists(w) THEN wallets[w] ELSE 0
opened(w) == IF Exists(w) THEN initialBalanceOf(w) ELSE 0

\* the calls that have ended, by how they ended
Done(p) == pc[p] = "done"
Returned(p) == Done(p) /\ local[p].error = "none"
Raised(p) == Done(p) /\ local[p].error # "none"
Replayed(p) == Returned(p) /\ local[p].via \in {"fastpath", "unique", "cache"}
Executed(p) == Returned(p) /\ local[p].via = "execute"

\* C1: for every idempotency key at most one call debits and credits the
\* wallets: the key has at most one DEBIT and one CREDIT ledger row, at most
\* one ended call of the key committed a transfer, and there is exactly one
\* pair once a call of the key has returned success.
C1_ExactlyOnce ==
    \A k \in Keys :
        /\ Cardinality(entriesOfKey(k, DEBIT)) <= 1
        /\ Cardinality(entriesOfKey(k, CREDIT)) <= 1
        /\ Cardinality(findOne(k)) <= 1
        /\ Cardinality({p \in Slots : Done(p) /\ req[p].idempotencyKey = k
                                      /\ local[p].mutated}) <= 1
        /\ (\E p \in Slots : Returned(p) /\ req[p].idempotencyKey = k
                             /\ local[p].result.success)
              => /\ Cardinality(entriesOfKey(k, DEBIT)) = 1
                 /\ Cardinality(entriesOfKey(k, CREDIT)) = 1

\* a call executed the transfer of a key and a concurrent duplicate of it
\* returned success as a replay
C1_Witness ==
    \E p, q \in Slots :
        /\ p # q
        /\ req[p].idempotencyKey = req[q].idempotencyKey
        /\ Executed(p)
        /\ Replayed(q) /\ local[q].duplicate /\ local[q].result.success
        /\ Cardinality(entriesOfKey(req[p].idempotencyKey, DEBIT)) = 1

\* C2: the sum of all wallet balances equals the sum of the initial balances
\* of the wallets in every committed state.
C2_Conservation ==
    held(1) + held(2) + held(3) + held(4)
        = opened(1) + opened(2) + opened(3) + opened(4)

\* C3: no wallet balance is negative in any committed state.
C3_NonNegative == \A w \in ExistingWallets : wallets[w] >= 0

\* two transfers out of wallet 1 have been decided against the locked
\* balance: one completed and debited it, one found it insufficient
C3_Witness ==
    \E l1, l2 \in logs :
        /\ l1.fromWalletId = 1 /\ l1.status = COMPLETED
        /\ l2.fromWalletId = 1 /\ l2.status = FAILED
        /\ l2.errorMessage = "Insufficient funds"
        /\ wallets[1] < InitialBalance[1]

\* C4: every COMPLETED log has exactly two Ledger rows, a DEBIT on its source
\* and a CREDIT on its destination, both of the log's amount; every PENDING
\* or FAILED log has none.
C4_LedgerPerLog ==
    \A l \in logs :
        IF l.status = COMPLETED
        THEN /\ Cardinality(entriesOfLog(l)) = 2
             /\ \E d, c \in entriesOfLog(l) :
                   /\ d.entryType = DEBIT /\ d.walletId = l.fromWalletId
                   /\ c.entryType = CREDIT /\ c.walletId = l.toWalletId
                   /\ d.amount = l.amount /\ c.amount = l.amount
        ELSE entriesOfLog(l) = {}

\* C5: every wallet's balance is its initial balance plus its CREDIT rows
\* minus its DEBIT rows.
C5_BalanceFromLedger ==
    \A w \in ExistingWallets :
        wallets[w] = initialBalanceOf(w) + SumAmounts(entriesOfWallet(w, CREDIT))
                                       - SumAmounts(entriesOfWallet(w, DEBIT))

\* C6: a log committed as COMPLETED or FAILED keeps its status and its
\* error_message in every later step.
C6_TerminalStatus ==
    [][\A l \in logs : l.status \in {COMPLETED, FAILED} => l \in logs']_vars

\* C7: a call that ends by raising an error has committed no balance change
\* and no Ledger row.
C7_ErrorLeavesBalances ==
    \A p \in Slots : Raised(p) => ~ local[p].mutated

\* C8: a replay returns the id, status, amount and created_at of the
\* committed log of its key, and all replays of a key return the same.
sameLogFields(r, l) ==
    /\ r.transactionId = l.id
    /\ r.status = l.status
    /\ r.amount = l.amount
    /\ r.createdAt = l.createdAt

C8_ReplayIdentical ==
    /\ \A p \in Slots :
          Replayed(p) => \E l \in findOne(req[p].idempotencyKey) :
                             sameLogFields(local[p].result, l)
    /\ \A p, q \in Slots :
          (Replayed(p) /\ Replayed(q) /\ req[p].idempotencyKey = req[q].idempotencyKey)
              => /\ local[p].result.transactionId = local[q].result.transactionId
                 /\ local[p].result.status = local[q].result.status
                 /\ local[p].result.amount = local[q].result.amount
                 /\ local[p].result.createdAt = local[q].result.createdAt

\* C9: the call that executed the transfer returns isIdempotent = false, and
\* every call that did not (fast path, unique violation or cache) returns
\* isIdempotent = true with success = (status = COMPLETED).
C9_ReplayFlag ==
    \A p \in Slots :
        /\ Executed(p) => ~ local[p].result.isIdempotent
        /\ Replayed(p) => /\ local[p].result.isIdempotent
                          /\ local[p].result.success = (local[p].result.status = COMPLETED)

\* C10: of two calls with the same key and the same request that were in
\* flight together, the one that did not perform the transfer ends in a
\* replay: no error is surfaced and the balances are not changed a second
\* time (stated for valid requests between existing wallets, in the runs in
\* which no statement failed for a reason outside the transfers).
\* the call ended because a wallet of the request has no row: the INSERT of
\* the log failed its foreign key, or findByPk returned null
unknownWallet(p) ==
    local[p].error \in {"ForeignKeyConstraintError", "WalletNotFound"}

C10_DuplicateReplays ==
    \A p, q \in Slots :
        (/\ p # q /\ Done(p) /\ Done(q) /\ faults = 0
         /\ local[p].duplicate
         /\ req[p].idempotencyKey = req[q].idempotencyKey
         /\ local[p].error # "InvalidTransfer" /\ local[q].error # "InvalidTransfer"
         /\ ~ unknownWallet(p) /\ ~ unknownWallet(q))
            => /\ Replayed(p) \/ Replayed(q)
               /\ ~ (local[p].mutated /\ local[q].mutated)

\* C11: a call that finds the source balance below the amount and whose
\* commit is not rejected commits a FAILED log with a non-empty error_message and nothing else (balances and
\* Ledger rows are as before the commit), then raises InsufficientFunds; once
\* it has raised, the key has exactly one log, FAILED, with a non-empty
\* error_message and no Ledger row, and the call has changed no balance.
shortOfFunds(p) ==
    /\ pc[p] = "commitFailed"
    /\ failure(req[p], local[p]) = "InsufficientFunds"

C11_InsufficientFundsRecorded ==
    /\ [][\A p \in Slots :
            (shortOfFunds(p) /\ pc'[p] = "catch" /\ faults' = faults)
                => /\ wallets' = wallets
                   /\ ledgers' = ledgers
                   /\ local'[p].error = "InsufficientFunds"
                   /\ \E l \in logs' \ logs :
                         /\ l.idempotencyKey = req[p].idempotencyKey
                         /\ l.status = FAILED /\ l.errorMessage # ""]_vars
    /\ [](\A p \in Slots :
            (Raised(p) /\ local[p].error = "InsufficientFunds")
                => /\ ~ local[p].mutated
                   /\ Cardinality(findOne(req[p].idempotencyKey)) = 1
                   /\ \A l \in findOne(req[p].idempotencyKey) :
                         /\ l.status = FAILED /\ l.errorMessage # ""
                         /\ entriesOfLog(l) = {})

\* a call has raised InsufficientFunds, rolled back in its error handler, and
\* the FAILED log of its key is still there
C11_Witness ==
    \E p \in Slots :
        /\ Raised(p) /\ local[p].error = "InsufficientFunds"
        /\ \E l \in findOne(req[p].idempotencyKey) : l.status = FAILED
        /\ wallets = InitialBalance

\* C12: once the transfer of a key has failed with InsufficientFunds, every
\* later call with the key (a valid request; Redis and the database answer
\* the lookup of the key) returns the
\* replay of the FAILED log, success = false and isIdempotent = true, raises
\* nothing and changes no balance, whatever the source wallet holds by then;
\* the log stays as it was and gets no Ledger row.
C12_FailedReplayed ==
    /\ failedBefore \in logs
    /\ entriesOfLog(failedBefore) = {}
    /\ \A p \in Slots :
          (/\ Done(p) /\ req[p].idempotencyKey = failedBefore.idempotencyKey
           /\ local[p].error \notin {"InvalidTransfer", "RedisError", "DatabaseError"})
              => /\ Replayed(p)
                 /\ local[p].result = replayResult(failedBefore)
                 /\ ~ local[p].result.success
                 /\ local[p].result.isIdempotent
                 /\ ~ local[p].mutated

\* the source wallet of the failed transfer has meanwhile received enough
\* funds, and a call with the key has still returned the FAILED replay
C12_Witness ==
    \E p \in Slots :
        /\ Replayed(p) /\ req[p].idempotencyKey = failedBefore.idempotencyKey
        /\ local[p].result.status = FAILED
        /\ wallets[failedBefore.fromWalletId] >= failedBefore.amount

\* C13: a call whose source or destination wallet has no row raises
\* WalletNotFound and leaves a committed FAILED log with an error_message for
\* its key.
C13_WalletNotFoundRecorded ==
    \A p \in Slots :
        (Raised(p) /\ local[p].error \in {"WalletNotFound", "ForeignKeyConstraintError"})
            => /\ local[p].error = "WalletNotFound"
               /\ \E l \in findOne(req[p].idempotencyKey) :
                     l.status = FAILED /\ l.errorMessage # ""

\* C14: a request without an idempotency key is rejected with
\* MissingIdempotencyKey before any database or cache access: no call runs
\* under a key the caller did not supply and no log carries such a key.
C14_MissingKeyRejected ==
    /\ \A l \in logs : l.idempotencyKey \notin GeneratedKeys
    /\ \A p \in Slots :
          (pc[p] # "idle" /\ req[p].idempotencyKey \in GeneratedKeys \cup {""})
              => Raised(p) /\ local[p].error = "MissingIdempotencyKey"

\* C15: a request with amount <= 0 or with the same wallet on both sides is
\* rejected with InvalidTransfer in the step that receives it: no such
\* request is ever in flight or recorded, and the rejecting step leaves
\* wallets, transaction_logs, ledgers, the cache, the locks and the open
\* transactions as they were.
C15_InvalidRejected ==
    /\ [](\A p \in Slots :
            pc[p] \notin {"idle", "done", "insertWallet"}
                => req[p].amount > 0 /\ req[p].fromWalletId # req[p].toWalletId)
    /\ [](\A l \in logs : l.amount >= 0 /\ l.fromWalletId # l.toWalletId)
    /\ [][\A p \in Slots :
            (/\ pc[p] \in {"idle", "done"} /\ calls' = calls + 1
             /\ pc'[p] = "done" /\ local'[p].error = "InvalidTransfer"
             /\ local'[p].via # "createWallet")
                => UNCHANGED <<dbVars, cache, lockVars, tx>>]_vars

\* a request was rejected with InvalidTransfer although a log of its key is
\* stored
C15_Witness ==
    \E p \in Slots :
        /\ Raised(p) /\ local[p].error = "InvalidTransfer"
        /\ findOne(req[p].idempotencyKey) # {}

\* C16: a call holds FOR UPDATE locks only on the two wallets of its request
\* and takes the one with the smaller id first, whatever the direction of the
\* transfer: it never holds the larger without the smaller, it does not hold
\* the larger while it is about to request the second lock, and the key-share
\* locks of its INSERT are on the same two wallets.
lockedBy(p) == {w \in ExistingWallets : lockHolder[w] = p}
smallerWallet(p) ==
    IF req[p].fromWalletId < req[p].toWalletId THEN req[p].fromWalletId ELSE req[p].toWalletId
largerWallet(p) ==
    IF req[p].fromWalletId < req[p].toWalletId THEN req[p].toWalletId ELSE req[p].fromWalletId

C16_LockOrder ==
    \A p \in Slots :
        /\ lockedBy(p) \subseteq {smallerWallet(p), largerWallet(p)}
        /\ {w \in ExistingWallets : p \in keyShare[w]}
              \subseteq {req[p].fromWalletId, req[p].toWalletId}
        /\ largerWallet(p) \in lockedBy(p)
              => smallerWallet(p) \in lockedBy(p) \/ ~ Exists(smallerWallet(p))
        /\ pc[p] \in {"lock1", "lock2"} => largerWallet(p) \notin lockedBy(p)
        /\ pc[p] = "lock1" => lockedBy(p) = {}

\* a transfer from the larger to the smaller wallet id holds the lock on its
\* destination, the smaller id, and is about to request the one on its source
C16_Witness ==
    \E p \in Slots :
        /\ pc[p] = "lock2"
        /\ req[p].fromWalletId > req[p].toWalletId
        /\ lockedBy(p) = {req[p].toWalletId}

\* C17: no two calls ever wait for each other's locks: there is no state in
\* which the next statement of one is blocked by the other and the next
\* statement of the other is blocked by the first.
C17_NoDeadlock ==
    \A p, q \in Slots :
        p # q => ~ (q \in blockedBy(p) /\ p \in blockedBy(q))

\* C18: of two transfers of 0.02 with distinct keys that are in flight
\* together over the same two funded wallets in opposite directions, neither
\* fails: with no statement rejected for an outside reason, neither call
\* reaches its error handler.
oppositeTransfers(p, q) ==
    /\ p # q
    /\ pc[p] \notin {"idle", "done"} /\ pc[q] \notin {"idle", "done"}
    /\ req[p].idempotencyKey # req[q].idempotencyKey
    /\ req[p].fromWalletId = req[q].toWalletId
    /\ req[p].toWalletId = req[q].fromWalletId
    /\ Exists(req[p].fromWalletId) /\ Exists(req[p].toWalletId)
    /\ req[p].amount = 20 /\ req[q].amount = 20

C18_OppositeBothComplete ==
    \A p, q \in Slots :
        (oppositeTransfers(p, q) /\ faults = 0) => local[p].error = "none"

\* C19: within a transfer the PENDING log is inserted before any balance is
\* written and before any Ledger row is inserted: a transaction that is about
\* to write or has written a balance or a Ledger row holds the log row of the
\* call's key, and every committed Ledger row belongs to a committed log.
writesBalances(p) ==
    \/ pc[p] \in {"debit", "credit", "ledger", "ledger2", "markCompleted", "commit"}
    \/ tx[p].balance # NoTx.balance
    \/ tx[p].ledgers # {}

C19_LogBeforeBalances ==
    /\ \A p \in Slots :
          writesBalances(p)
              => /\ tx[p].log # NoLog
                 /\ tx[p].log.idempotencyKey = req[p].idempotencyKey
                 /\ tx[p].log.status \in {PENDING, COMPLETED}
                 /\ pc[p] \in {"debit", "credit", "ledger", "ledger2"}
                        => tx[p].log.status = PENDING
    /\ \A e \in ledgers : \E l \in logs : l.id = e.transactionLogId

\* a transaction has written both balances under its PENDING log
C19_Witness ==
    \E p \in Slots :
        /\ pc[p] = "ledger"
        /\ tx[p].log.status = PENDING
        /\ tx[p].balance[req[p].fromWalletId] # NoTx.balance[req[p].fromWalletId]

\* C20: the PENDING log is inserted before the first wallet lock is requested,
\* so a call that requests or holds a FOR UPDATE lock on a wallet has inserted
\* its log row, and a call that lost the unique-key race holds no wallet lock.
C20_LogBeforeLocks ==
    \A p \in Slots :
        /\ (pc[p] \in {"lock1", "lock2"} \/ lockedBy(p) # {}) => tx[p].log # NoLog
        /\ ((pc[p] = "create" /\ uniqueViolation(req[p].idempotencyKey))
            \/ pc[p] = "rollback")
              => lockedBy(p) = {}

\* C21: a serialization failure that aborts a transfer's transaction before
\* anything was committed is retried, not surfaced on the first abort: a call
\* opens one transaction per attempt, so no call that met no other failure
\* ends by raising the serialization failure of its only attempt.
C21_SerializationRetried ==
    \A p \in Slots :
        (Raised(p) /\ faults = 0) => local[p].error # "SerializationFailure"

\* ======================================================= interest engine
\* ------------------------------------------------ decimal.js arithmetic
\* A natural number is the sequence of its decimal digits, units first,
\* without leading zeros (<< >> is zero).  A Decimal is [c, e]: the value
\* c * 10^e.  Only non-negative values occur.
Precision == 20                 \* Decimal.set({ precision: 20 })
AmountScale == 8                \* toFixed(8), DECIMAL(20, 8)

RECURSIVE stripZeros(_)
stripZeros(a) ==
    IF a = << >> \/ a[Len(a)] # 0 THEN a ELSE stripZeros(SubSeq(a, 1, Len(a) - 1))

\* digit i of a, 0 beyond its length
digitAt(a, i) == IF i <= Len(a) THEN a[i] ELSE 0

pow10(k) == CASE k = 0 -> 1 [] k = 1 -> 10 [] k = 2 -> 100 [] k = 3 -> 1000
             [] k = 4 -> 10000 [] OTHER -> 100000

RECURSIVE digitsOf(_)
digitsOf(n) == IF n = 0 THEN << >> ELSE <<n % 10>> \o digitsOf(n \div 10)

\* the digits of the column sums cols[i..], carries propagated, five columns
\* at a time
RECURSIVE carryFrom(_, _, _)
carryFrom(cols, i, carry) ==
    IF i > Len(cols) THEN digitsOf(carry)
    ELSE LET m == IF Len(cols) - i + 1 < 5 THEN Len(cols) - i + 1 ELSE 5
             v == carry + digitAt(cols, i) + digitAt(cols, i + 1) * 10
                        + digitAt(cols, i + 2) * 100 + digitAt(cols, i + 3) * 1000
                        + digitAt(cols, i + 4) * 10000
         IN [j \in 1..m |-> (v \div pow10(j - 1)) % 10] \o carryFrom(cols, i + m, v \div pow10(m))

addDigits(a, b) ==
    LET n == IF Len(a) > Len(b) THEN Len(a) ELSE Len(b)
    IN carryFrom([i \in 1..n |-> digitAt(a, i) + digitAt(b, i)], 1, 0)

\* sum of a[j] * b[i - j + 1] over the j from `j` on: column i of the product
RECURSIVE columnSum(_, _, _, _)
columnSum(a, b, i, j) ==
    IF j > Len(a) \/ j > i THEN 0
    ELSE (IF i - j + 1 <= Len(b) THEN a[j] * b[i - j + 1] ELSE 0) + columnSum(a, b, i, j + 1)

timesDigits(a, b) ==
    IF a = << >> \/ b = << >> THEN << >>
    ELSE stripZeros(carryFrom([i \in 1..(Len(a) + Len(b) - 1) |-> columnSum(a, b, i, 1)], 1, 0))

\* a * 10^k
shiftDigits(a, k) == IF a = << >> THEN a ELSE [i \in 1..k |-> 0] \o a

\* a / 10^k rounded half up (ROUND_HALF_UP)
roundHalfUp(a, k) ==
    IF k <= 0 THEN a
    ELSE IF k > Len(a) THEN << >>
    ELSE LET kept == stripZeros(SubSeq(a, k + 1, Len(a)))
         IN IF a[k] >= 5 THEN addDigits(kept, <<1>>) ELSE kept

\* quotient digits and remainder of the digits a[i..] divided by a small
\* divisor d (long division, five digits at a time)
RECURSIVE divideFrom(_, _, _)
divideFrom(a, i, d) ==
    IF i > Len(a) THEN [q |-> << >>, r |-> 0]
    ELSE LET high == divideFrom(a, i + 5, d)
             cur == high.r * 100000 + digitAt(a, i) + digitAt(a, i + 1) * 10
                        + digitAt(a, i + 2) * 100 + digitAt(a, i + 3) * 1000
                        + digitAt(a, i + 4) * 10000
         IN [q |-> [j \in 1..5 |-> ((cur \div d) \div pow10(j - 1)) % 10] \o high.q,
             r |-> cur % d]

divideDigits(a, d) == divideFrom(a, 1, d)

\* the result of an operation, rounded to Precision significant digits
toPrecision(x) ==
    IF Len(x.c) > Precision
    THEN [c |-> roundHalfUp(x.c, Len(x.c) - Precision), e |-> x.e + (Len(x.c) - Precision)]
    ELSE x

times(x, y) == toPrecision([c |-> timesDigits(x.c, y.c), e |-> x.e + y.e])

plus(x, y) ==
    LET e == IF x.e < y.e THEN x.e ELSE y.e
    IN toPrecision([c |-> addDigits(shiftDigits(x.c, x.e - e), shiftDigits(y.c, y.e - e)),
                    e |-> e])

\* x.dividedBy(n) for an integer n: the digits of the quotient beyond
\* Precision + 1 cannot change the rounding
dividedBy(x, n) ==
    LET extra == Precision + 4
    IN toPrecision([c |-> stripZeros(divideDigits(shiftDigits(x.c, extra), n).q),
                    e |-> x.e - extra])

\* x.toFixed(8), as the number of 0.00000001 units the string denotes
toFixed(x) ==
    IF x.e >= 0 - AmountScale THEN shiftDigits(x.c, x.e + AmountScale)
    ELSE roundHalfUp(x.c, 0 - AmountScale - x.e)

\* new Decimal(account.balance): a stored amount of 0.00000001 units
Decimal(units) == [c |-> units, e |-> 0 - AmountScale]

\* the amount of `whole` currency units, in 0.00000001 units
wholeUnits(whole) == shiftDigits(digitsOf(whole), AmountScale)

\* ----------------------------------------------- interest.service.ts, pure
ANNUAL_INTEREST_RATE == [c |-> <<5, 7, 2>>, e |-> -3]      \* new Decimal('0.275')
ANNUAL_RATE_FIXED6 == "0.275000"                            \* .toFixed(6)

isLeapYearEveryFourth(year) == year % 4 = 0

isLeapYear(year) == (year % 4 = 0 /\ year % 100 # 0) \/ year % 400 = 0

getDaysInYear(year) == IF isLeapYear(year) THEN 366 ELSE 365

calculateDailyRate(year) == dividedBy(ANNUAL_INTEREST_RATE, getDaysInYear(year))

calculateInterest(principal, dailyRate) == times(principal, dailyRate)

calculateNewBalance(principal, interest) == plus(principal, interest)

\* ------------------------------------------------------ interest inputs
InterestVariants == {"interest.service", "services/interest.service"}
\* hours east of UTC of the process time zone: UTC and UTC+1
TimeZones == {0, 1}
AccountIds == {1, 2, 3}         \* account ids: row 1 exists at the start, 2 never
                                \* has a row, 3 is the id (UUIDV4) of the row
                                \* createAccount inserts
\* initialBalance of createAccount, as new Decimal(string) reads it: '5000'
\* and '-1'
NewAccountBalances == {[s |-> 1, c |-> <<0, 0, 0, 5>>, e |-> 0],
                       [s |-> -1, c |-> <<1>>, e |-> 0]}
\* a Date is the number of hours since 2024-12-30T00:00:00.000Z
ISODates == <<"2024-12-30", "2024-12-31", "2025-01-01", "2025-01-02">>
NewYearsDay == 2                \* days from 2024-12-30 to 2025-01-01
\* the dates of the daily calls: 2024-12-31T23:00Z and 2025-01-01T12:00Z
Dates == {47, 60}
\* the ranges <<startDate, endDate>>: three days at noon, two days whose end
\* is at midnight, one day, a start after the end
DateRanges == {<<12, 60>>, <<12, 24>>, <<36, 47>>, <<60, 12>>}
OpeningBalance == wholeUnits(10000)                 \* 10000.00000000
LargeBalance == shiftDigits(wholeUnits(60000), 6)   \* 60000000000.00000000

transferVars == <<wallets, rowVersion, logs, ledgers, cache, lockVars, tx>>

\* no row of the accounts table under the id
NoAccount == [balance |-> << >>, updatedAt |-> -1]
\* the committed rows of the accounts table
ExistingAccounts == {a \in AccountIds : accounts[a] # NoAccount}
\* the id of the row createAccount inserts (defaultValue UUIDV4): no caller
\* names it before createAccount has returned it
newAccountId == 3
\* the accounts table with one row, of account 1
accountsWith(balance) ==
    [a \in AccountIds |-> IF a = 1 THEN [balance |-> balance, updatedAt |-> 0] ELSE NoAccount]

NoInterestLog ==
    [accountId |-> 0, calculationDate |-> "", principalBalance |-> << >>,
     interestAmount |-> << >>, annualRate |-> "", daysInYear |-> 0,
     newBalance |-> << >>]

\* date is the date of the daily call, or currentDate of the loop of the range
NoInterestReq == [op |-> "", accountId |-> 0, startDate |-> 0, date |-> 0, endDate |-> 0]

\* the local variables of calculateDailyInterest and of the loop of
\* calculateInterestForDateRange; once the call is done, what it returned
\* (isNew and the fields of the log) or threw
NoInterestLocal ==
    [error |-> "none", isNew |-> FALSE, log |-> NoInterestLog,
     calculationDate |-> "", year |-> 0, principal |-> << >>, daysInYear |-> 0,
     interestAmount |-> << >>, newBalance |-> << >>, results |-> << >>]

\* ------------------------------------------------------------ Date, rows
\* date.toISOString().split('T')[0]: the UTC calendar date
toISOString(date) == ISODates[(date \div 24) + 1]

\* the year of a calendar date "YYYY-MM-DD"
yearOf(calculationDate) ==
    IF (CHOOSE i \in 1..Len(ISODates) : ISODates[i] = calculationDate) - 1 >= NewYearsDay
    THEN 2025 ELSE 2024

\* date.getFullYear(): the year of the date in the process time zone
getFullYear(date) == IF (date + timeZone) \div 24 >= NewYearsDay THEN 2025 ELSE 2024

\* currentDate.setDate(currentDate.getDate() + 1): the same local time on the
\* next local day (the zones of TimeZones have no daylight saving time)
nextDay(date) == date + 24

\* InterestLog.findOne({ where: { accountId, calculationDate } })
findInterestLog(a, d) ==
    {l \in interestLogs : l.accountId = a /\ l.calculationDate = d}

\* the accounts.balance column keeps 2 fractional digits in entities/Account.ts
\* and 8 in the express models; the database rounds what does not fit
storedBalance(units) ==
    IF variant = "interest.service"
    THEN shiftDigits(roundHalfUp(units, AmountScale - 2), AmountScale - 2)
    ELSE units

InitInterest ==
    /\ variant \in InterestVariants
    /\ timeZone \in TimeZones
    /\ accounts = accountsWith(OpeningBalance)
    /\ interestLogs = {}
    /\ wallets = InitialBalance
    /\ rowVersion = <<0, 0, -1, -1>>
    /\ logs = {}
    /\ ledgers = {}
    /\ cache = [k \in AllKeys |-> NoEntry]
    /\ lockHolder = <<0, 0, 0, 0>>
    /\ keyShare = <<{}, {}, {}, {}>>
    /\ tx = [p \in Slots |-> NoTx]
    /\ calls = 0
    /\ faults = 0
    /\ pc = [p \in Slots |-> "idle"]
    /\ req = [p \in Slots |-> NoInterestReq]
    /\ local = [p \in Slots |-> NoInterestLocal]

\* ------------------------------------------------------ interest actions
\* calculateDailyInterest returns `log` (isNew tells whether it was created
\* by this call): the call ends, or the loop of the date range goes on
ReturnLog(p, log, isNew) ==
    LET loc == [local[p] EXCEPT !.isNew = isNew, !.log = log]
    IN IF req[p].op = "range"
       THEN /\ pc' = [pc EXCEPT ![p] = "rangeLoop"]
            /\ req' = [req EXCEPT ![p].date = nextDay(req[p].date)]
            /\ local' = [local EXCEPT ![p] =
                            [loc EXCEPT !.results = Append(local[p].results,
                                                           [isNew |-> isNew, log |-> log])]]
       ELSE /\ pc' = [pc EXCEPT ![p] = "done"]
            /\ local' = [local EXCEPT ![p] = loc]
            /\ UNCHANGED req

\* the call throws whatever went wrong as a DatabaseError
ThrowDatabaseError(p, error) ==
    /\ pc' = [pc EXCEPT ![p] = "done"]
    /\ local' = [local EXCEPT ![p] = [local[p] EXCEPT !.error = "DatabaseError"]]
    /\ UNCHANGED req

\* the call throws: an error leaves the loop of the date range too
Throw(p, error) ==
    /\ pc' = [pc EXCEPT ![p] = "done"]
    /\ local' = [local EXCEPT ![p] = [local[p] EXCEPT !.error = error]]
    /\ UNCHANGED req

\* balance.isNegative() of the Decimal read from the string
isNegative(x) == x.s < 0

\* createAccount(initialBalance) is called: the balance is parsed and
\* validated before the await (one account is added in a run: the call starts
\* while the id is free and no other createAccount is under way)
CreateAccount(p) ==
    /\ FreeSlot(p)
    /\ calls < MaxCalls
    /\ calls' = calls + 1
    /\ newAccountId \notin ExistingAccounts
    /\ \A q \in Slots : pc[q] # "insertAccount"
    /\ req' = [req EXCEPT ![p] = [NoInterestReq EXCEPT !.op = "createAccount"]]
    /\ \E balance \in NewAccountBalances :
         IF isNegative(balance)
         THEN /\ local' = [local EXCEPT ![p] =
                             [NoInterestLocal EXCEPT !.error = "InvalidBalance"]]
              /\ pc' = [pc EXCEPT ![p] = "done"]
         ELSE /\ local' = [local EXCEPT ![p] =
                             [NoInterestLocal EXCEPT !.newBalance = toFixed(balance)]]
              /\ pc' = [pc EXCEPT ![p] = "insertAccount"]
    /\ UNCHANGED <<variant, interestVars, transferVars, faults>>

\* await Account.create({ balance: balance.toFixed(8) }): the row is
\* committed with the balance the column keeps
InsertAccount(p) ==
    /\ pc[p] = "insertAccount"
    /\ accounts' = [accounts EXCEPT ![newAccountId] =
                       [balance |-> storedBalance(local[p].newBalance), updatedAt |-> 0]]
    /\ pc' = [pc EXCEPT ![p] = "done"]
    /\ UNCHANGED <<variant, interestLogs, timeZone, transferVars, calls, faults, req, local>>

\* calculateDailyInterest(accountId, date) is called: calculationDate and
\* year are taken from the date before the first await
CalculateDailyInterest(p) ==
    /\ FreeSlot(p)
    /\ calls < MaxCalls
    /\ calls' = calls + 1
    /\ \E a \in AccountIds, d \in Dates :
         /\ a = newAccountId => a \in ExistingAccounts
         /\ req' = [req EXCEPT ![p] = [op |-> "daily", accountId |-> a, startDate |-> d,
                                       date |-> d, endDate |-> d]]
         /\ local' = [local EXCEPT ![p] =
                         [NoInterestLocal EXCEPT !.calculationDate = toISOString(d),
                                                 !.year = getFullYear(d)]]
    /\ pc' = [pc EXCEPT ![p] = "findInterestLog"]
    /\ UNCHANGED <<variant, interestVars, transferVars, faults>>

\* calculateInterestForDateRange(accountId, startDate, endDate) is called
\* (services/interest.service.ts only)
CalculateInterestForDateRange(p) ==
    /\ FreeSlot(p)
    /\ calls < MaxCalls
    /\ calls' = calls + 1
    /\ \E a \in AccountIds, range \in DateRanges :
         /\ a = newAccountId => a \in ExistingAccounts
         /\ req' = [req EXCEPT ![p] = [op |-> "range", accountId |-> a, startDate |-> range[1],
                                    date |-> range[1], endDate |-> range[2]]]
    /\ local' = [local EXCEPT ![p] = NoInterestLocal]
    /\ pc' = [pc EXCEPT ![p] = "rangeLoop"]
    /\ UNCHANGED <<variant, interestVars, transferVars, faults>>

\* while (currentDate <= endDate): the next calculateDailyInterest, or the
\* results are returned
RangeLoop(p) ==
    /\ pc[p] = "rangeLoop"
    /\ IF req[p].date <= req[p].endDate
       THEN /\ pc' = [pc EXCEPT ![p] = "findInterestLog"]
            /\ local' = [local EXCEPT ![p] =
                            [NoInterestLocal EXCEPT
                                !.calculationDate = toISOString(req[p].date),
                                !.year = getFullYear(req[p].date),
                                !.results = local[p].results]]
       ELSE /\ pc' = [pc EXCEPT ![p] = "done"]
            /\ local' = [local EXCEPT ![p] =
                            [NoInterestLocal EXCEPT !.results = local[p].results]]
    /\ UNCHANGED <<variant, interestVars, transferVars, calls, faults, req>>

\* const existingLog = await InterestLog.findOne(...): an existing log is
\* returned with isNew: false
FindInterestLog(p) ==
    /\ pc[p] = "findInterestLog"
    /\ LET found == findInterestLog(req[p].accountId, local[p].calculationDate)
       IN IF found # {}
          THEN ReturnLog(p, CHOOSE l \in found : TRUE, FALSE)
          ELSE /\ pc' = [pc EXCEPT ![p] = "findAccount"]
               /\ UNCHANGED <<req, local>>
    /\ UNCHANGED <<variant, interestVars, transferVars, calls, faults>>

\* const account = await Account.findByPk(accountId): a missing account is
\* "Account not found"; else principal, daysInYear, dailyRate, interest and
\* newBalance are computed from the balance read
FindAccount(p) ==
    /\ pc[p] = "findAccount"
    /\ IF req[p].accountId \notin ExistingAccounts
       THEN Throw(p, "AccountNotFound")
       ELSE LET principal == Decimal(accounts[req[p].accountId].balance)
                daysInYear == getDaysInYear(local[p].year)
                dailyRate == calculateDailyRate(local[p].year)
                interest == calculateInterest(principal, dailyRate)
                newBalance == calculateNewBalance(principal, interest)
            IN /\ pc' = [pc EXCEPT ![p] = "createInterestLog"]
               /\ local' = [local EXCEPT ![p] =
                               [local[p] EXCEPT !.principal = toFixed(principal),
                                                !.daysInYear = daysInYear,
                                                !.interestAmount = toFixed(interest),
                                                !.newBalance = toFixed(newBalance)]]
               /\ UNCHANGED req
    /\ UNCHANGED <<variant, interestVars, transferVars, calls, faults>>

\* the unique index interest_logs_account_date_unique rejects the INSERT
interestLogExists(a, d) == findInterestLog(a, d) # {}

\* await InterestLog.create({...}): the row is committed by the statement
\* (no transaction is open); UniqueConstraintError goes to the catch block
CreateInterestLog(p) ==
    /\ pc[p] = "createInterestLog"
    /\ IF interestLogExists(req[p].accountId, local[p].calculationDate)
       THEN /\ pc' = [pc EXCEPT ![p] = "refetchInterestLog"]
            /\ UNCHANGED <<interestLogs, local>>
       ELSE LET row == [accountId |-> req[p].accountId,
                        calculationDate |-> local[p].calculationDate,
                        principalBalance |-> local[p].principal,
                        interestAmount |-> local[p].interestAmount,
                        annualRate |-> ANNUAL_RATE_FIXED6,
                        daysInYear |-> local[p].daysInYear,
                        newBalance |-> local[p].newBalance]
            IN /\ interestLogs' = interestLogs \cup {row}
               /\ local' = [local EXCEPT ![p].log = row]
               /\ pc' = [pc EXCEPT ![p] = "updateAccount"]
    /\ UNCHANGED <<variant, accounts, timeZone, transferVars, calls, faults, req>>

\* await account.update({ balance: newBalance.toFixed(8) }): UPDATE accounts
\* SET balance = ... WHERE id = ..., then the result is returned with
\* isNew: true
UpdateAccount(p) ==
    /\ pc[p] = "updateAccount"
    /\ accounts' = [accounts EXCEPT ![req[p].accountId] =
                       [balance |-> storedBalance(local[p].newBalance),
                        updatedAt |-> @.updatedAt + 1]]
    /\ ReturnLog(p, local[p].log, TRUE)
    /\ UNCHANGED <<variant, interestLogs, timeZone, transferVars, calls, faults>>

\* catch (UniqueConstraintError): InterestLog.findOne again; the existing
\* log is returned with isNew: false
RefetchInterestLog(p) ==
    /\ pc[p] = "refetchInterestLog"
    /\ LET found == findInterestLog(req[p].accountId, local[p].calculationDate)
       IN IF found # {}
          THEN ReturnLog(p, CHOOSE l \in found : TRUE, FALSE)
          ELSE Throw(p, "UniqueConstraintError")
    /\ UNCHANGED <<variant, interestVars, transferVars, calls, faults>>

\* an await of the call is rejected (connection lost, statement timeout,
\* the process is killed): nothing is caught but UniqueConstraintError, the
\* error reaches the caller
InterestAwaitFails(p) ==
    /\ pc[p] \in {"findInterestLog", "findAccount", "createInterestLog",
                  "updateAccount", "refetchInterestLog", "insertAccount"}
    /\ faults < MaxFaults
    /\ faults' = faults + 1
    /\ Throw(p, "DatabaseError")
    /\ UNCHANGED <<variant, interestVars, transferVars, calls>>

NextInterest ==
    \/ \E p \in Slots : CalculateDailyInterest(p)
    \/ \E p \in Slots : CreateAccount(p)
    \/ \E p \in Slots : InsertAccount(p)
    \/ \E p \in Slots : FindInterestLog(p)
    \/ \E p \in Slots : FindAccount(p)
    \/ \E p \in Slots : CreateInterestLog(p)
    \/ \E p \in Slots : UpdateAccount(p)
    \/ \E p \in Slots : RefetchInterestLog(p)
    \/ \E p \in Slots : InterestAwaitFails(p)

SpecInterest == InitInterest /\ [][NextInterest]_vars

\* calculateInterestForDateRange of the express service, in the UTC+1 zone
\* and in UTC
InitDateRange ==
    /\ InitInterest
    /\ variant = "services/interest.service"

NextDateRange ==
    \/ \E p \in Slots : CalculateInterestForDateRange(p)
    \/ \E p \in Slots : RangeLoop(p)
    \/ \E p \in Slots : CreateAccount(p)
    \/ \E p \in Slots : InsertAccount(p)
    \/ \E p \in Slots : FindInterestLog(p)
    \/ \E p \in Slots : FindAccount(p)
    \/ \E p \in Slots : CreateInterestLog(p)
    \/ \E p \in Slots : UpdateAccount(p)
    \/ \E p \in Slots : RefetchInterestLog(p)
    \/ \E p \in Slots : InterestAwaitFails(p)

SpecDateRange == InitDateRange /\ [][NextDateRange]_vars

\* the account opens with 60000000000.00000000, within DECIMAL(20, 8)
InitLargeBalance ==
    /\ variant \in InterestVariants
    /\ timeZone \in TimeZones
    /\ accounts = accountsWith(LargeBalance)
    /\ interestLogs = {}
    /\ wallets = InitialBalance
    /\ rowVersion = <<0, 0, -1, -1>>
    /\ logs = {}
    /\ ledgers = {}
    /\ cache = [k \in AllKeys |-> NoEntry]
    /\ lockHolder = <<0, 0, 0, 0>>
    /\ keyShare = <<{}, {}, {}, {}>>
    /\ tx = [p \in Slots |-> NoTx]
    /\ calls = 0
    /\ faults = 0
    /\ pc = [p \in Slots |-> "idle"]
    /\ req = [p \in Slots |-> NoInterestReq]
    /\ local = [p \in Slots |-> NoInterestLocal]

SpecLargeBalance == InitLargeBalance /\ [][NextInterest]_vars

\* isLeapYear and getDaysInYear applied to every year from 1600 to 2400
Years == 1600..2400

InitLeapYear ==
    /\ variant \in InterestVariants
    /\ timeZone = 0
    /\ accounts = accountsWith(OpeningBalance)
    /\ interestLogs = {}
    /\ wallets = InitialBalance
    /\ rowVersion = <<0, 0, -1, -1>>
    /\ logs = {}
    /\ ledgers = {}
    /\ cache = [k \in AllKeys |-> NoEntry]
    /\ lockHolder = <<0, 0, 0, 0>>
    /\ keyShare = <<{}, {}, {}, {}>>
    /\ tx = [p \in Slots |-> NoTx]
    /\ calls = 0
    /\ faults = 0
    /\ pc = [p \in Slots |-> "idle"]
    /\ req = [p \in Slots |-> NoInterestReq]
    /\ \E y \in Years :
          local = [p \in Slots |-> [year |-> y, isLeapYear |-> FALSE, daysInYear |-> 0]]

GetDaysInYear(p) ==
    /\ pc[p] = "idle"
    /\ pc' = [pc EXCEPT ![p] = "done"]
    /\ local' = [local EXCEPT ![p] = [year |-> local[p].year,
                                      isLeapYear |-> isLeapYear(local[p].year),
                                      daysInYear |-> getDaysInYear(local[p].year)]]
    /\ UNCHANGED <<variant, interestVars, transferVars, calls, faults, req>>

NextLeapYear == \E p \in Slots : GetDaysInYear(p)

SpecLeapYear == InitLeapYear /\ [][NextLeapYear]_vars

\* ------------------------------------------------ interest engine, claims
\* every call made so far has ended and is still in its slot
allEnded == 
    /\ calls >= 1
    /\ \A p \in Slots : pc[p] \in {"idle", "done"}
    /\ calls = Cardinality({p \in Slots : pc[p] = "done"})

\* every call made so far was calculateDailyInterest(a, d)
allFor(a, d) ==
    \A p \in Slots :
        pc[p] # "idle" => /\ req[p].op = "daily"
                          /\ req[p].accountId = a
                          /\ local[p].calculationDate = d

\* C22: once the calls calculateDailyInterest(a, d) made for one account and
\* one date have ended and one of them returned, the account balance was
\* written exactly once, one InterestLog row exists for (a, d), and exactly
\* one call returned isNew = true.
C22_OncePerDay ==
    \A a \in ExistingAccounts, d \in {toISOString(x) : x \in Dates} :
        (allEnded /\ allFor(a, d) /\ \E p \in Slots : Returned(p))
            => /\ Cardinality(findInterestLog(a, d)) = 1
               /\ accounts[a].updatedAt = 1
               /\ Cardinality({p \in Slots : Returned(p) /\ local[p].isNew}) = 1

\* the sum of interest_amount over a set of InterestLog rows
RECURSIVE sumInterest(_)
sumInterest(rows) ==
    IF rows = {} THEN << >>
    ELSE LET l == CHOOSE x \in rows : TRUE
         IN addDigits(l.interestAmount, sumInterest(rows \ {l}))

logsOfAccount(a) == {l \in interestLogs : l.accountId = a}

\* the balance an account started with: the one it holds at the start, or
\* the one its createAccount stored
openingBalanceOf(a) ==
    IF a # newAccountId THEN OpeningBalance
    ELSE storedBalance(toFixed(CHOOSE b \in NewAccountBalances : ~ isNegative(b)))

\* no call is under way
quiescent == \A p \in Slots : pc[p] \in {"idle", "done"}

\* C23: whenever no call is under way and no statement was rejected, the
\* balance of every account equals its initial balance plus the sum of
\* interest_amount over its InterestLog rows.
C23_BalanceFromInterest ==
    \A a \in ExistingAccounts :
        (quiescent /\ faults = 0)
            => accounts[a].balance = addDigits(openingBalanceOf(a), sumInterest(logsOfAccount(a)))

\* C24: the InterestLog insert and the balance update of one call take
\* effect together or not at all: whenever no call is under way, every
\* InterestLog row of an account has had its new_balance written to the
\* account, so the account was updated once for each of its rows.
C24_LogAndBalanceTogether ==
    \A a \in ExistingAccounts :
        quiescent => accounts[a].updatedAt = Cardinality(logsOfAccount(a))

\* C25: the days_in_year recorded in an InterestLog is the number of days of
\* the year of its calculation_date (the UTC calendar date), whatever the
\* process time zone.
C25_YearOfCalculationDate ==
    \A l \in interestLogs : l.daysInYear = getDaysInYear(yearOf(l.calculationDate))

\* C26: for every year from 1600 to 2400, isLeapYear is true exactly when
\* the year is divisible by 4 and not by 100, or divisible by 400, and
\* getDaysInYear is 366 for a leap year and 365 otherwise.
C26_Gregorian ==
    \A p \in Slots :
        pc[p] = "done"
            => /\ local[p].isLeapYear
                    <=> \/ local[p].year % 4 = 0 /\ local[p].year % 100 # 0
                        \/ local[p].year % 400 = 0
               /\ local[p].daysInYear = IF local[p].isLeapYear THEN 366 ELSE 365

\* 1900 was found to have 365 days
C26_Witness ==
    \E p \in Slots :
        pc[p] = "done" /\ local[p].year = 1900 /\ local[p].daysInYear = 365

\* principal * 0.275 / days, rounded half up to a whole number of
\* 0.00000001 units
interestOf(principal, days) ==
    roundHalfUp(stripZeros(divideDigits(timesDigits(principal, ANNUAL_INTEREST_RATE.c),
                                        days).q), 0 - ANNUAL_INTEREST_RATE.e)

\* C27: every InterestLog row has annual_rate 0.275000, interest_amount =
\* principal_balance * annual_rate / days_in_year rounded half up to 8
\* fractional digits, and new_balance = principal_balance + interest_amount.
C27_LogArithmetic ==
    \A l \in interestLogs :
        /\ l.annualRate = "0.275000"
        /\ l.interestAmount = interestOf(l.principalBalance, l.daysInYear)
        /\ l.newBalance = addDigits(l.principalBalance, l.interestAmount)

\* C28: a date range call that returns has invoked calculateDailyInterest
\* once for each calendar day from the day of startDate to the day of
\* endDate, in ascending order, each day's principal_balance being the
\* previous day's new_balance; when startDate is after endDate nothing is
\* applied.
C28_EveryCalendarDay ==
    \A p \in Slots :
        (pc[p] = "done" /\ req[p].op = "range" /\ local[p].error = "none")
            => LET results == local[p].results
                   first == req[p].startDate \div 24
                   last == req[p].endDate \div 24
               IN IF req[p].startDate > req[p].endDate
                  THEN results = << >>
                  ELSE /\ Len(results) = last - first + 1
                       /\ \A i \in 1..Len(results) :
                             results[i].log.calculationDate = ISODates[first + i]
                       /\ \A i \in 2..Len(results) :
                             results[i].log.principalBalance = results[i - 1].log.newBalance

\* C29: calculateDailyInterest on an account id that has no row changes
\* neither accounts nor interest_logs in any of its steps, goes no further
\* than Account.findByPk, and, unless one of its awaits is rejected, ends
\* with AccountNotFound.
C29_AccountNotFound ==
    [][\A p \in Slots :
          (/\ req[p].op = "daily"
           /\ req[p].accountId \notin ExistingAccounts
           /\ pc[p] \notin {"idle", "done"}
           /\ pc'[p] # pc[p])
              => /\ accounts' = accounts
                 /\ interestLogs' = interestLogs
                 /\ pc'[p] \in {"findAccount", "done"}
                 /\ (pc'[p] = "done" /\ faults' = faults)
                        => local'[p].error = "AccountNotFound"]_vars

\* a call on account 2 has ended with AccountNotFound while account 1 has
\* an interest log
C29_Witness ==
    \E p \in Slots :
        /\ pc[p] = "done"
        /\ req[p].op = "daily"
        /\ req[p].accountId \notin ExistingAccounts
        /\ local[p].error = "AccountNotFound"
        /\ interestLogs # {}

\* C30: every committed Ledger row satisfies balance_after = balance_before
\* - amount when it is a DEBIT and balance_after = balance_before + amount
\* when it is a CREDIT, amount being the value stored in the row.
C30_LedgerArithmetic ==
    \A l \in ledgers :
        /\ l.entryType = DEBIT => l.balanceAfter = l.balanceBefore - l.amount
        /\ l.entryType = CREDIT => l.balanceAfter = l.balanceBefore + l.amount

\* C31: in every committed state a TransactionLog has a non-empty
\* error_message if and only if its status is FAILED.
C31_ErrorMessageIffFailed ==
    \A l \in logs : l.errorMessage # "" <=> l.status = FAILED

\* a log marked FAILED inside its transaction and a log marked FAILED by
\* the catch block are both committed
C31_Witness ==
    /\ \E l \in logs : l.status = FAILED /\ l.errorMessage = "Insufficient funds"
    /\ \E l \in logs : l.status = FAILED /\ l.errorMessage = "error"

\* C32: a call that has returned or raised has no open transaction and
\* holds no wallet row lock, and a row lock is only ever held by a call
\* whose transaction is open.
C32_TransactionEnded ==
    \A p \in Slots :
        /\ Done(p) => ~ tx[p].active
        /\ \A w \in ExistingWallets :
              (lockHolder[w] = p \/ p \in keyShare[w])
                  => tx[p].active /\ pc[p] \notin {"idle", "done"}

\* a call replayed after its unique violation and the call that executed
\* the transfer have both ended, one of them raising
C32_Witness ==
    \E p, q \in Slots :
        /\ Returned(p) /\ local[p].via = "unique"
        /\ Raised(q) /\ local[q].mutated

\* C33: whenever the PENDING insert has failed with a unique violation, the
\* lookup by key that follows finds a committed log, and that log is
\* COMPLETED or FAILED; no call ends with the failure to retrieve it.
C33_ReplayFindsTerminalLog ==
    \A p \in Slots :
        /\ pc[p] = "refetch"
              => /\ findOne(req[p].idempotencyKey) # {}
                 /\ \A l \in findOne(req[p].idempotencyKey) :
                       l.status \in {COMPLETED, FAILED}
        /\ local[p].error # "Failed to retrieve existing transaction log"

\* a call is about to look up the log whose key made its insert fail
C33_Witness ==
    \E p \in Slots :
        /\ pc[p] = "refetch"
        /\ \E l \in findOne(req[p].idempotencyKey) : l.status = COMPLETED

\* C34: no committed TransactionLog is PENDING, the log of a transaction is
\* COMPLETED or FAILED when its commit is issued, and no replay reports a
\* PENDING log.
C34_NoPendingCommitted ==
    /\ \A l \in logs : l.status # PENDING
    /\ \A p \in Slots :
          /\ pc[p] \in {"commit", "commitFailed"} => tx[p].log.status \in {COMPLETED, FAILED}
          /\ Replayed(p) => local[p].result.status # PENDING

\* a transfer was committed COMPLETED and a later call of its key replayed it
C34_Witness ==
    \E p \in Slots, l \in logs :
        /\ l.status = COMPLETED
        /\ Replayed(p)
        /\ local[p].result.transactionId = l.id
        /\ local[p].result.status = COMPLETED

\* the request r names other wallets or another amount than the stored log l
payloadDiffers(r, l) ==
    \/ r.fromWalletId # l.fromWalletId
    \/ r.toWalletId # l.toWalletId
    \/ toDecimal2(r.amount) # l.amount

\* C35: a call that passed validation and whose key has a committed log
\* with other wallets or another amount changes no wallet, log or ledger
\* row in any of its steps, never opens a transaction, and, unless Redis
\* rejects its write, returns the stored log (its id and stored amount) as a
\* replay.
C35_ReplayByKeyAlone ==
    [][\A p \in Slots :
          \A l \in findOne(req[p].idempotencyKey) :
              (/\ \/ pc[p] \in {"cacheGet", "findExisting"}
                  \/ pc[p] = "cacheSet" /\ local[p].via = "fastpath"
               /\ payloadDiffers(req[p], l)
               /\ pc'[p] # pc[p])
                  => /\ dbVars' = dbVars
                     /\ pc'[p] \in {"findExisting", "cacheSet", "done"}
                     /\ (pc'[p] \in {"cacheSet", "done"} /\ faults' = faults)
                            => /\ local'[p].error = "none"
                               /\ local'[p].via \in {"cache", "fastpath"}
                               /\ local'[p].result.transactionId = l.id
                               /\ local'[p].result.amount = l.amount]_vars

\* the fast path has built the replay of a log whose wallets or amount are
\* not those of the request
C35_Witness ==
    \E p \in Slots :
        \E l \in findOne(req[p].idempotencyKey) :
            /\ pc[p] = "cacheSet"
            /\ local[p].via = "fastpath"
            /\ payloadDiffers(req[p], l)
            /\ local[p].result.transactionId = l.id

\* C36: the Ledger rows of a wallet form one chain in commit order: every
\* row is committed with balance_before equal to the balance the wallet had
\* just before that commit (the balance_after of its previous row, or the
\* initial balance) and balance_after equal to the balance the commit
\* leaves, a balance changes only in a commit that adds a row of the
\* wallet, and so the balance of a wallet with rows is the balance_after of
\* the row committed last.
C36_LedgerChain ==
    [][/\ \A e \in ledgers' \ ledgers :
             /\ e.balanceBefore = wallets[e.walletId]
             /\ e.balanceAfter = wallets'[e.walletId]
       /\ \A w \in WalletIds :
             /\ (Exists(w) /\ wallets'[w] # wallets[w])
                   => \E e \in ledgers' \ ledgers : e.walletId = w
             /\ Cardinality({e \in ledgers' \ ledgers : e.walletId = w}) <= 1
             /\ wallets'[w] # Null
                   => IF \E e \in ledgers' : e.walletId = w
                      THEN \E e \in ledgers' : e.walletId = w /\ e.balanceAfter = wallets'[w]
                      ELSE wallets'[w] = initialBalanceOf(w)
       /\ ledgers \subseteq ledgers']_vars

\* two transfers over the same wallet were committed one after the other
C36_Witness ==
    \E e1, e2 \in ledgers :
        /\ e1.walletId = e2.walletId
        /\ e1.transactionLogId # e2.transactionLogId
        /\ e1.balanceBefore = initialBalanceOf(e1.walletId)
        /\ e2.balanceBefore = e1.balanceAfter
        /\ e2.balanceAfter = wallets[e2.walletId]

\* C37: every stored TransactionLog amount and Ledger amount is a positive
\* multiple of 0.01, and the DEBIT and the CREDIT row of a transfer change
\* their two balances by the same magnitude.
C37_AmountScale ==
    /\ \A l \in logs : l.amount >= MillsPerCent /\ l.amount % MillsPerCent = 0
    /\ \A e \in ledgers : e.amount >= MillsPerCent /\ e.amount % MillsPerCent = 0
    /\ \A d, c \in ledgers :
          (d.entryType = DEBIT /\ c.entryType = CREDIT
           /\ d.transactionLogId = c.transactionLogId)
              => d.balanceBefore - d.balanceAfter = c.balanceAfter - c.balanceBefore

\* C38: every cache entry idempotency:<k> holds a response whose
\* transactionId and status are those of the committed TransactionLog row
\* with key k.
C38_CacheCoherent ==
    \A k \in AllKeys :
        cache[k] # NoEntry
            => \E l \in findOne(k) :
                  /\ cache[k].transactionId = l.id
                  /\ cache[k].status = l.status

====
